---- MODULE Spec2Model ----
(***************************************************************************)
(* schedule_fixer.build_collision_free_schedule as a state machine.        *)
(*                                                                         *)
(* Strings are modelled by what the code reads from them:                  *)
(*   - a clock string is a record [kind, h, m]: kind "hhmm" is text of the *)
(*     form H:M whose two parts int() accepts, kind "empty" is "" (also    *)
(*     what e.get(key, "") gives for a missing key), kind "junk" is any    *)
(*     other text (split(":") / int() raise ValueError on it);             *)
(*   - a time_slot is the sequence of clock strings time_slot.split("-")   *)
(*     yields;                                                             *)
(*   - a task_name is [class_tag, text]: class_tag is                      *)
(*     task_name.startswith("[CLASS]"), text is the rest of the name.      *)
(* The clock strings of the inputs carry no surrounding blanks, so the     *)
(* .strip() of lines 170-171 leaves them as they are.  Minutes are kept as *)
(* unbounded integers, as Python keeps them.                               *)
(***************************************************************************)
EXTENDS Integers, Sequences, FiniteSets, TLC

VARIABLES
    timetable_entries,  \* input: the commitment records
    llm_tasks,          \* input: the proposal list
    pc,                 \* "start", "anchors", "fitted", "done" or "raised"
    class_tasks,        \* anchors, after line 217
    fixed_intervals,    \* line 218
    fitted_personal,    \* line 224-242
    merged,             \* the returned list
    window,             \* a call of _subtract_intervals on its own
    sweep,              \* a call of _resolve_residual_overlaps on its own
    calls,              \* the locals of each of several calls in progress
    slot,               \* an interval written as text and read back
    history             \* one user's history file, policy store and last reflection

vars == <<timetable_entries, llm_tasks, pc, class_tasks, fixed_intervals,
          fitted_personal, merged, window, sweep, calls, slot, history>>

\* ---------------------------------------------------------------- bounds
MaxTimetable == 2
MaxTasks == 2
MaxBlocked == 2
MaxRecords == 3
MaxCalls == 2
MaxSweep == 3
MaxHistory == 3
MaxReflections == 2

\* ---------------------------------------------------------- clock strings
HHMM(h, m) == [kind |-> "hhmm", h |-> h, m |-> m]
EmptyStr == [kind |-> "empty", h |-> 0, m |-> 0]
JunkStr == [kind |-> "junk", h |-> 0, m |-> 0]

\* _to_minutes raises ValueError unless the text is H:M with integer parts.
ToMinutesRaises(t) == t.kind # "hhmm"

_to_minutes(t) == t.h * 60 + t.m

\* _to_hhmm writing the hour of the day, 00..23
ToHhmmOfTheDay(minutes) == HHMM((minutes \div 60) % 24, minutes % 60)

_to_hhmm(minutes) == HHMM(minutes \div 60, minutes % 60)

\* _parse_slot raises when split("-") does not give two parts or a part
\* is not a clock string.
ParseSlotRaises(time_slot) ==
    \/ Len(time_slot) # 2
    \/ \E i \in 1..Len(time_slot) : ToMinutesRaises(time_slot[i])

\* _parse_slot without lines 51-52
ParseSlotNoWrap(time_slot) ==
    <<_to_minutes(time_slot[1]), _to_minutes(time_slot[2])>>

_parse_slot(time_slot) ==
    LET start == _to_minutes(time_slot[1])
        end == _to_minutes(time_slot[2])
    IN  IF end <= start THEN <<start, end + 24 * 60>> ELSE <<start, end>>

_make_slot(start, end) == <<_to_hhmm(start), _to_hhmm(end)>>

\* _overlaps that sees only a window that is the same
OverlapsSameWindow(s1, e1, s2, e2) == s1 = s2 /\ e1 = e2

_overlaps(s1, e1, s2, e2) == s1 < e2 /\ s2 < e1

ScheduledTask(time_slot, task_name, is_attendance_safe, estimated_minutes) ==
    [time_slot |-> time_slot, task_name |-> task_name,
     is_attendance_safe |-> is_attendance_safe,
     estimated_minutes |-> estimated_minutes]

\* StartsWithClass comparing the whole name with "[CLASS]"
StartsWithClassExact(task_name) == task_name.class_tag /\ task_name.text = ""

\* task_name.startswith("[CLASS]")
StartsWithClass(task_name) == task_name.class_tag

\* f"[CLASS] {subject}"
ClassName(subject) == [class_tag |-> TRUE, text |-> subject]

PlainName(text) == [class_tag |-> FALSE, text |-> text]

\* list.sort(key = ...) is a stable sort: an element goes after every
\* element whose key is less than or equal to its own.  A pair is <<key, item>>.
RECURSIVE InsertByKey(_, _)
InsertByKey(sorted, pair) ==
    IF sorted = <<>> THEN <<pair>>
    ELSE IF sorted[1][1] <= pair[1]
         THEN <<sorted[1]>> \o InsertByKey(Tail(sorted), pair)
         ELSE <<pair>> \o sorted

RECURSIVE SortPairs(_, _)
SortPairs(pairs, sorted) ==
    IF pairs = <<>> THEN sorted
    ELSE SortPairs(Tail(pairs), InsertByKey(sorted, pairs[1]))

\* items.sort(key = ...), keys[k] being the key of items[k]
SortByKey(items, keys) ==
    LET sorted == SortPairs([k \in 1..Len(items) |-> <<keys[k], items[k]>>], <<>>)
    IN  [k \in 1..Len(sorted) |-> sorted[k][2]]

\* SortCandidates with the sort left out
SortCandidatesInputOrder(candidates) == candidates

\* candidates.sort(key=lambda c: c["start_m"])  (line 196)
SortCandidates(candidates) ==
    SortByKey(candidates, [k \in 1..Len(candidates) |-> candidates[k].start_m])

\* SortTasks putting, of tasks with equal start, the one listed last first
SortTasksLastListedFirst(tasks) ==
    LET n == Len(tasks)
        reversed == [k \in 1..n |-> tasks[n + 1 - k]]
    IN  SortByKey(reversed, [k \in 1..n |-> _parse_slot(reversed[k].time_slot)[1]])

\* tasks.sort(key=lambda t: _parse_slot(t.time_slot)[0])  (lines 217, 246)
SortTasks(tasks) ==
    SortByKey(tasks, [k \in 1..Len(tasks) |-> _parse_slot(tasks[k].time_slot)[1]])

\* ----------------------------------------------------- interval arithmetic
\* SplitFree without the right portion (lines 81-82 left out)
RECURSIVE SplitFreeNoRight(_, _, _)
SplitFreeNoRight(free, b_start, b_end) ==
    IF free = <<>> THEN <<>>
    ELSE (IF b_end <= free[1][1] \/ b_start >= free[1][2]
          THEN <<free[1]>>
          ELSE IF free[1][1] < b_start THEN <<(<<free[1][1], b_start>>)>> ELSE <<>>)
         \o SplitFreeNoRight(Tail(free), b_start, b_end)

\* SplitFree cutting the first free window only
SplitFreeFirstOnly(free, b_start, b_end) ==
    IF free = <<>> THEN <<>>
    ELSE LET f_start == free[1][1]
             f_end == free[1][2]
         IN  (IF b_end <= f_start \/ b_start >= f_end
              THEN <<free[1]>>
              ELSE (IF f_start < b_start THEN <<(<<f_start, b_start>>)>> ELSE <<>>)
                   \o (IF b_end < f_end THEN <<(<<b_end, f_end>>)>> ELSE <<>>))
             \o Tail(free)

\* lines 75-82: what one blocker leaves of the free windows
RECURSIVE SplitFree(_, _, _)
SplitFree(free, b_start, b_end) ==
    IF free = <<>> THEN <<>>
    ELSE LET f_start == free[1][1]
             f_end == free[1][2]
             kept ==
                 IF b_end <= f_start \/ b_start >= f_end
                 THEN <<free[1]>>
                 ELSE (IF f_start < b_start THEN <<(<<f_start, b_start>>)>> ELSE <<>>)
                      \o (IF b_end < f_end THEN <<(<<b_end, f_end>>)>> ELSE <<>>)
         IN  kept \o SplitFree(Tail(free), b_start, b_end)

RECURSIVE SubtractFrom(_, _)
SubtractFrom(free, blocked) ==
    IF blocked = <<>> THEN free
    ELSE SubtractFrom(SplitFree(free, blocked[1][1], blocked[1][2]), Tail(blocked))

_subtract_intervals(start, end, blocked) ==
    SubtractFrom(<<(<<start, end>>)>>, blocked)

\* ------------------------------------------------ Step 1: parse timetable
\* the candidates with the flag of the candidate of that key replaced
ReplaceFlag(candidates, start_m, subject, critical) ==
    [k \in 1..Len(candidates) |->
        IF candidates[k].start_m = start_m /\ candidates[k].subject = subject
        THEN [candidates[k] EXCEPT !.critical = critical]
        ELSE candidates[k]]

\* ParseTimetable keeping the last record of a key, not the first
RECURSIVE ParseTimetableLastWins(_, _, _, _)
ParseTimetableLastWins(entries, i, seen_exact, candidates) ==
    IF i > Len(entries) THEN [raised |-> FALSE, candidates |-> candidates]
    ELSE LET e == entries[i]
             key == <<e.start_time, e.end_time, e.subject>>
         IN  IF e.start_time.kind = "empty" \/ e.end_time.kind = "empty"
             THEN ParseTimetableLastWins(entries, i + 1, seen_exact, candidates)
             ELSE IF key \in seen_exact
             THEN ParseTimetableLastWins(entries, i + 1, seen_exact,
                      ReplaceFlag(candidates, _to_minutes(e.start_time), e.subject,
                                  e.is_attendance_critical))
             ELSE IF ToMinutesRaises(e.start_time) \/ ToMinutesRaises(e.end_time)
             THEN [raised |-> TRUE, candidates |-> <<>>]
             ELSE LET start_m == _to_minutes(e.start_time)
                      end0 == _to_minutes(e.end_time)
                      end_m == IF end0 <= start_m THEN end0 + 24 * 60 ELSE end0
                  IN  ParseTimetableLastWins(entries, i + 1, seen_exact \cup {key},
                          Append(candidates,
                                 [start_m |-> start_m, end_m |-> end_m,
                                  subject |-> e.subject,
                                  critical |-> e.is_attendance_critical]))

\* ParseTimetable with line 175 testing start_str only
RECURSIVE ParseTimetableChecksStartOnly(_, _, _, _)
ParseTimetableChecksStartOnly(entries, i, seen_exact, candidates) ==
    IF i > Len(entries) THEN [raised |-> FALSE, candidates |-> candidates]
    ELSE LET e == entries[i]
             key == <<e.start_time, e.end_time, e.subject>>
         IN  IF e.start_time.kind = "empty"
             THEN ParseTimetableChecksStartOnly(entries, i + 1, seen_exact, candidates)
             ELSE IF key \in seen_exact
             THEN ParseTimetableChecksStartOnly(entries, i + 1, seen_exact, candidates)
             ELSE IF ToMinutesRaises(e.start_time) \/ ToMinutesRaises(e.end_time)
             THEN [raised |-> TRUE, candidates |-> <<>>]
             ELSE LET start_m == _to_minutes(e.start_time)
                      end0 == _to_minutes(e.end_time)
                      end_m == IF end0 <= start_m THEN end0 + 24 * 60 ELSE end0
                  IN  ParseTimetableChecksStartOnly(entries, i + 1,
                          seen_exact \cup {key},
                          Append(candidates,
                                 [start_m |-> start_m, end_m |-> end_m,
                                  subject |-> e.subject,
                                  critical |-> e.is_attendance_critical]))

\* lines 167-193: the loop over timetable_entries from entry i on.  The result
\* is [raised, candidates]: _to_minutes at lines 183-184 is not guarded.
RECURSIVE ParseTimetable(_, _, _, _)
ParseTimetable(entries, i, seen_exact, candidates) ==
    IF i > Len(entries) THEN [raised |-> FALSE, candidates |-> candidates]
    ELSE LET e == entries[i]
             start_str == e.start_time
             end_str == e.end_time
             key == <<start_str, end_str, e.subject>>
         IN  IF start_str.kind = "empty" \/ end_str.kind = "empty"
             THEN ParseTimetable(entries, i + 1, seen_exact, candidates)
             ELSE IF key \in seen_exact
             THEN ParseTimetable(entries, i + 1, seen_exact, candidates)
             ELSE IF ToMinutesRaises(start_str) \/ ToMinutesRaises(end_str)
             THEN [raised |-> TRUE, candidates |-> <<>>]
             ELSE LET start_m == _to_minutes(start_str)
                      end0 == _to_minutes(end_str)
                      end_m == IF end0 <= start_m THEN end0 + 24 * 60 ELSE end0
                  IN  ParseTimetable(entries, i + 1, seen_exact \cup {key},
                          Append(candidates,
                                 [start_m |-> start_m, end_m |-> end_m,
                                  subject |-> e.subject,
                                  critical |-> e.is_attendance_critical]))

\* ------------------------------------- Step 2: one class per time window
\* lines 205-215: the greedy scan over the sorted candidates
\* AssignClasses comparing a candidate with every candidate scanned before it
RECURSIVE AssignClassesAgainstSeen(_, _, _)
AssignClassesAgainstSeen(candidates, accepted_intervals, tasks) ==
    IF candidates = <<>> THEN tasks
    ELSE LET c == candidates[1]
             s == c.start_m
             e == c.end_m
         IN  IF \E k \in 1..Len(accepted_intervals) :
                    _overlaps(s, e, accepted_intervals[k][1], accepted_intervals[k][2])
             THEN AssignClassesAgainstSeen(Tail(candidates),
                      Append(accepted_intervals, <<s, e>>), tasks)
             ELSE AssignClassesAgainstSeen(Tail(candidates),
                      Append(accepted_intervals, <<s, e>>),
                      Append(tasks,
                             ScheduledTask(_make_slot(s, e), ClassName(c.subject),
                                           ~c.critical, e - s)))

RECURSIVE AssignClasses(_, _, _)
AssignClasses(candidates, accepted_intervals, tasks) ==
    IF candidates = <<>> THEN tasks
    ELSE LET c == candidates[1]
             s == c.start_m
             e == c.end_m
         IN  IF \E k \in 1..Len(accepted_intervals) :
                    _overlaps(s, e, accepted_intervals[k][1], accepted_intervals[k][2])
             THEN AssignClasses(Tail(candidates), accepted_intervals, tasks)
             ELSE AssignClasses(Tail(candidates),
                      Append(accepted_intervals, <<s, e>>),
                      Append(tasks,
                             ScheduledTask(_make_slot(s, e), ClassName(c.subject),
                                           ~c.critical, e - s)))

\* lines 162-217: [raised, class_tasks]
ExtractClassTasks(entries) ==
    LET parsed == ParseTimetable(entries, 1, {}, <<>>)
    IN  IF parsed.raised THEN [raised |-> TRUE, class_tasks |-> <<>>]
        ELSE [raised |-> FALSE,
              class_tasks |->
                  SortTasks(AssignClasses(SortCandidates(parsed.candidates),
                                          <<>>, <<>>))]

\* line 218
FixedIntervals(tasks) == [k \in 1..Len(tasks) |-> _parse_slot(tasks[k].time_slot)]

\* ------------------------------------------------ Steps 3-4: fit the tasks
\* PersonalTasks without the filter on the name
PersonalTasksUnfiltered(tasks) == tasks

\* line 221
PersonalTasks(tasks) == SelectSeq(tasks, LAMBDA t : ~StartsWithClass(t.task_name))

\* Caught for a handler that lets the error through
CaughtNothing == FALSE

\* line 229: "except Exception" catches whatever _parse_slot raises
Caught == TRUE

\* WindowTasks passing the task's own estimated_minutes on
RECURSIVE WindowTasksKeepsEstimate(_, _)
WindowTasksKeepsEstimate(task, free_windows) ==
    IF free_windows = <<>> THEN <<>>
    ELSE (IF free_windows[1][2] - free_windows[1][1] <= 0 THEN <<>>
          ELSE <<ScheduledTask(_make_slot(free_windows[1][1], free_windows[1][2]),
                               task.task_name, task.is_attendance_safe,
                               task.estimated_minutes)>>)
         \o WindowTasksKeepsEstimate(task, Tail(free_windows))

\* lines 233-242: one entry per free window of positive width
RECURSIVE WindowTasks(_, _)
WindowTasks(task, free_windows) ==
    IF free_windows = <<>> THEN <<>>
    ELSE LET w_start == free_windows[1][1]
             w_end == free_windows[1][2]
             duration == w_end - w_start
         IN  (IF duration <= 0 THEN <<>>
              ELSE <<ScheduledTask(_make_slot(w_start, w_end), task.task_name,
                                   task.is_attendance_safe, duration)>>)
             \o WindowTasks(task, Tail(free_windows))

\* lines 226-242: [raised, fitted]
RECURSIVE FitTasks(_, _, _)
FitTasks(personal_tasks, fixed, fitted) ==
    IF personal_tasks = <<>> THEN [raised |-> FALSE, fitted |-> fitted]
    ELSE LET task == personal_tasks[1]
         IN  IF ParseSlotRaises(task.time_slot)
             THEN IF Caught
                  THEN FitTasks(Tail(personal_tasks), fixed, fitted)
                  ELSE [raised |-> TRUE, fitted |-> <<>>]
             ELSE LET t == _parse_slot(task.time_slot)
                      free_windows == _subtract_intervals(t[1], t[2], fixed)
                  IN  FitTasks(Tail(personal_tasks), fixed,
                               fitted \o WindowTasks(task, free_windows))

\* ------------------------------------------- residual-overlap safety pass
\* ClassWins leaving the previous task as it is
ClassWinsKeepsPrev(result, task) == Append(result, task)

\* lines 111-125: an incoming [CLASS] task that starts before prev_end
ClassWins(result, task) ==
    LET prev == result[Len(result)]
        t_start == _parse_slot(task.time_slot)[1]
        prev_start == _parse_slot(prev.time_slot)[1]
        front == SubSeq(result, 1, Len(result) - 1)
    IN  IF ~StartsWithClass(prev.task_name)
        THEN IF prev_start < t_start
             THEN Append(Append(front,
                      ScheduledTask(_make_slot(prev_start, t_start), prev.task_name,
                                    prev.is_attendance_safe, t_start - prev_start)),
                      task)
             ELSE Append(front, task)
        ELSE Append(result, task)

\* PersonalLoses with the push to prev_end left out
PersonalLosesNoPush(result, task) == Append(result, task)

\* PersonalLoses cutting the overlap off the end of the task, not its start
PersonalLosesTrimsEnd(result, task) ==
    LET t == _parse_slot(task.time_slot)
        new_duration == t[2] - _parse_slot(result[Len(result)].time_slot)[2]
    IN  IF new_duration > 0
        THEN Append(result,
                 ScheduledTask(_make_slot(t[1], t[1] + new_duration), task.task_name,
                               task.is_attendance_safe, new_duration))
        ELSE result

\* PersonalLoses moving the whole task behind prev_end, its width kept
PersonalLosesShifts(result, task) ==
    LET t == _parse_slot(task.time_slot)
        prev_end == _parse_slot(result[Len(result)].time_slot)[2]
    IN  Append(result,
            ScheduledTask(_make_slot(prev_end, prev_end + (t[2] - t[1])),
                          task.task_name, task.is_attendance_safe, t[2] - t[1]))

\* PersonalLoses pushing the start without recomputing estimated_minutes
PersonalLosesKeepsEstimate(result, task) ==
    LET t_end == _parse_slot(task.time_slot)[2]
        prev_end == _parse_slot(result[Len(result)].time_slot)[2]
    IN  IF t_end - prev_end > 0
        THEN Append(result,
                 ScheduledTask(_make_slot(prev_end, t_end), task.task_name,
                               task.is_attendance_safe, task.estimated_minutes))
        ELSE result

\* PersonalLoses dropping every task that starts before prev_end
PersonalLosesDrops(result, task) == result

\* lines 126-136: an incoming personal task that starts before prev_end
PersonalLoses(result, task) ==
    LET prev == result[Len(result)]
        prev_end == _parse_slot(prev.time_slot)[2]
        t_end == _parse_slot(task.time_slot)[2]
        new_duration == t_end - prev_end
    IN  IF new_duration > 0
        THEN Append(result,
                 ScheduledTask(_make_slot(prev_end, t_end), task.task_name,
                               task.is_attendance_safe, new_duration))
        ELSE result

\* lines 101-136: the loop body
ResolveStep(result, task) ==
    LET prev_end == _parse_slot(result[Len(result)].time_slot)[2]
        t_start == _parse_slot(task.time_slot)[1]
    IN  IF t_start >= prev_end THEN Append(result, task)
        ELSE IF StartsWithClass(task.task_name) THEN ClassWins(result, task)
        ELSE PersonalLoses(result, task)

RECURSIVE ResolveFrom(_, _)
ResolveFrom(result, rest) ==
    IF rest = <<>> THEN result
    ELSE ResolveFrom(ResolveStep(result, rest[1]), Tail(rest))

_resolve_residual_overlaps(tasks) ==
    IF tasks = <<>> THEN tasks
    ELSE ResolveFrom(<<tasks[1]>>, Tail(tasks))

\* lines 245-247
MergeAndResolve(classes, fitted) ==
    _resolve_residual_overlaps(SortTasks(classes \o fitted))

\* the whole function: [raised, result]
build_collision_free_schedule(tasks, entries) ==
    LET x == ExtractClassTasks(entries)
        f == FitTasks(PersonalTasks(tasks), FixedIntervals(x.class_tasks), <<>>)
    IN  IF x.raised \/ f.raised THEN [raised |-> TRUE, result |-> <<>>]
        ELSE [raised |-> FALSE, result |-> MergeAndResolve(x.class_tasks, f.fitted)]

\* ------------------------------------------------------------ the inputs
TimetableSlot(start_time, end_time, subject, is_attendance_critical) ==
    [start_time |-> start_time, end_time |-> end_time, subject |-> subject,
     is_attendance_critical |-> is_attendance_critical]

\* Commitment records: a class, a competing subject on the same window, a
\* partly overlapping class, an overnight class, a record without start_time,
\* a record whose start_time is unusable text.
TimetablePool ==
    { TimetableSlot(HHMM(9, 0), HHMM(10, 0), "Math", TRUE),
      TimetableSlot(HHMM(9, 0), HHMM(10, 0), "Physics", FALSE),
      TimetableSlot(HHMM(9, 30), HHMM(11, 0), "Chem", TRUE),
      TimetableSlot(HHMM(23, 0), HHMM(1, 0), "Lab", TRUE),
      TimetableSlot(EmptyStr, HHMM(10, 0), "Math", TRUE),
      TimetableSlot(JunkStr, HHMM(10, 0), "Math", TRUE) }

\* Proposals: two that overlap the classes and one another (one written 09:60,
\* with estimated_minutes unlike its width), an overnight one, one whose hours
\* run past 24, unusable text, a [CLASS] name.
TaskPool ==
    { ScheduledTask(<<HHMM(9, 30), HHMM(10, 30)>>, PlainName("Study"), TRUE, 60),
      ScheduledTask(<<HHMM(9, 60), HHMM(11, 0)>>, PlainName("Gym"), FALSE, 45),
      ScheduledTask(<<HHMM(22, 0), HHMM(2, 0)>>, PlainName("Sleep"), TRUE, 240),
      ScheduledTask(<<HHMM(25, 0), HHMM(1, 0)>>, PlainName("Walk"), TRUE, 0),
      ScheduledTask(<<JunkStr>>, PlainName("Call"), TRUE, 15),
      ScheduledTask(<<HHMM(9, 0), HHMM(10, 0)>>, ClassName("Math"), FALSE, 60) }

SeqsUpTo(S, n) == UNION { [1..k -> S] : k \in 0..n }

\* no call of _subtract_intervals / _resolve_residual_overlaps on its own
NoWindow == [pc |-> "idle", start |-> 0, end |-> 0, blocked |-> <<>>, k |-> 0,
             free |-> <<>>]
NoSweep == [pc |-> "idle", tasks |-> <<>>, k |-> 0, result |-> <<>>]
\* no calls in progress side by side
NoCalls == <<>>
\* no interval written and read back
NoSlot == [pc |-> "idle", s |-> 0, e |-> 0, text |-> <<>>, parsed |-> <<>>]
\* no history file in use
NoHistory == [pc |-> "idle"]

\* ------------------------------------------------------ the state machine
Init ==
    /\ timetable_entries \in SeqsUpTo(TimetablePool, MaxTimetable)
    /\ llm_tasks \in SeqsUpTo(TaskPool, MaxTasks)
    /\ pc = "start"
    /\ class_tasks = <<>>
    /\ fixed_intervals = <<>>
    /\ fitted_personal = <<>>
    /\ merged = <<>>
    /\ window = NoWindow
    /\ sweep = NoSweep
    /\ calls = NoCalls
    /\ slot = NoSlot
    /\ history = NoHistory

\* Steps 1-2 and lines 217-218
ExtractAnchors ==
    /\ pc = "start"
    /\ LET x == ExtractClassTasks(timetable_entries)
       IN  IF x.raised
           THEN /\ pc' = "raised"
                /\ UNCHANGED <<class_tasks, fixed_intervals>>
           ELSE /\ pc' = "anchors"
                /\ class_tasks' = x.class_tasks
                /\ fixed_intervals' = FixedIntervals(x.class_tasks)
    /\ UNCHANGED <<timetable_entries, llm_tasks, fitted_personal, merged>>
    /\ UNCHANGED <<window, sweep, calls, slot, history>>

\* Steps 3-4
FitPersonal ==
    /\ pc = "anchors"
    /\ LET f == FitTasks(PersonalTasks(llm_tasks), fixed_intervals, <<>>)
       IN  IF f.raised
           THEN /\ pc' = "raised"
                /\ UNCHANGED fitted_personal
           ELSE /\ pc' = "fitted"
                /\ fitted_personal' = f.fitted
    /\ UNCHANGED <<timetable_entries, llm_tasks, class_tasks, fixed_intervals, merged>>
    /\ UNCHANGED <<window, sweep, calls, slot, history>>

\* Step 5 and the return
Resolve ==
    /\ pc = "fitted"
    /\ merged' = MergeAndResolve(class_tasks, fitted_personal)
    /\ pc' = "done"
    /\ UNCHANGED <<timetable_entries, llm_tasks, class_tasks, fixed_intervals,
                   fitted_personal, window, sweep, calls, slot,
                   history>>

Next == ExtractAnchors \/ FitPersonal \/ Resolve

Spec == Init /\ [][Next]_vars

\* ------------------------------- the weekly timetable flattened to a day
\* Commitment records: the same (start, end, subject) with either flag, a
\* competing subject on the same window, a class that overlaps the first, a
\* class that overlaps only that one, an overnight class, records without
\* start_time or end_time, a record whose end_time is unusable text.
RecordPool ==
    { TimetableSlot(HHMM(9, 0), HHMM(10, 0), "Math", TRUE),
      TimetableSlot(HHMM(9, 0), HHMM(10, 0), "Math", FALSE),
      TimetableSlot(HHMM(9, 0), HHMM(10, 0), "Physics", FALSE),
      TimetableSlot(HHMM(9, 30), HHMM(11, 0), "Chem", TRUE),
      TimetableSlot(HHMM(10, 30), HHMM(11, 30), "Bio", FALSE),
      TimetableSlot(HHMM(23, 0), HHMM(1, 0), "Lab", TRUE),
      TimetableSlot(EmptyStr, HHMM(10, 0), "Bio", TRUE),
      TimetableSlot(HHMM(9, 0), EmptyStr, "Math", TRUE),
      TimetableSlot(HHMM(9, 0), JunkStr, "Lab", TRUE) }

\* the proposals that go with them
RecordTaskPool ==
    { ScheduledTask(<<HHMM(9, 30), HHMM(10, 30)>>, PlainName("Study"), TRUE, 60),
      ScheduledTask(<<HHMM(22, 0), HHMM(2, 0)>>, PlainName("Sleep"), TRUE, 240) }

TimetableInit ==
    /\ timetable_entries \in SeqsUpTo(RecordPool, MaxRecords)
    /\ llm_tasks \in SeqsUpTo(RecordTaskPool, 1)
    /\ pc = "start"
    /\ class_tasks = <<>>
    /\ fixed_intervals = <<>>
    /\ fitted_personal = <<>>
    /\ merged = <<>>
    /\ window = NoWindow
    /\ sweep = NoSweep
    /\ calls = NoCalls
    /\ slot = NoSlot
    /\ history = NoHistory

TimetableSpec == TimetableInit /\ [][Next]_vars

\* ------------------------ build_collision_free_schedule around midnight
\* an overnight class, a late evening class and a morning class
NightRecordPool ==
    { TimetableSlot(HHMM(23, 0), HHMM(1, 0), "Lab", TRUE),
      TimetableSlot(HHMM(21, 0), HHMM(22, 0), "Seminar", FALSE),
      TimetableSlot(HHMM(9, 0), HHMM(10, 0), "Math", TRUE) }

\* a proposal after midnight, an overnight proposal and a morning proposal
NightTaskPool ==
    { ScheduledTask(<<HHMM(0, 30), HHMM(2, 0)>>, PlainName("Read"), TRUE, 90),
      ScheduledTask(<<HHMM(22, 0), HHMM(2, 0)>>, PlainName("Sleep"), TRUE, 240),
      ScheduledTask(<<HHMM(9, 30), HHMM(10, 30)>>, PlainName("Study"), TRUE, 60) }

NightInit ==
    /\ timetable_entries \in SeqsUpTo(NightRecordPool, MaxTimetable)
    /\ llm_tasks \in SeqsUpTo(NightTaskPool, MaxTasks)
    /\ pc = "start"
    /\ class_tasks = <<>>
    /\ fixed_intervals = <<>>
    /\ fitted_personal = <<>>
    /\ merged = <<>>
    /\ window = NoWindow
    /\ sweep = NoSweep
    /\ calls = NoCalls
    /\ slot = NoSlot
    /\ history = NoHistory

NightSpec == NightInit /\ [][Next]_vars

\* no call of build_collision_free_schedule
NoBuild ==
    /\ timetable_entries = <<>>
    /\ llm_tasks = <<>>
    /\ pc = "idle"
    /\ class_tasks = <<>>
    /\ fixed_intervals = <<>>
    /\ fitted_personal = <<>>
    /\ merged = <<>>

build_vars == <<timetable_entries, llm_tasks, pc, class_tasks, fixed_intervals,
                fitted_personal, merged>>

\* --------------------------------------- _subtract_intervals on its own
\* the minutes windows and blockers start and end at
WindowPoints == {540, 600, 660, 690, 720}
WindowSpans == { w \in WindowPoints \X WindowPoints : w[1] < w[2] }

\* the call and line 72
WindowInit ==
    /\ NoBuild
    /\ sweep = NoSweep
    /\ calls = NoCalls
    /\ slot = NoSlot
    /\ history = NoHistory
    /\ \E w \in WindowSpans, blocked \in SeqsUpTo(WindowSpans, MaxBlocked) :
           window = [pc |-> "loop", start |-> w[1], end |-> w[2],
                     blocked |-> blocked, k |-> 0, free |-> <<w>>]

\* lines 73-83: one blocker
WindowBlock ==
    /\ window.pc = "loop"
    /\ window.k < Len(window.blocked)
    /\ LET b == window.blocked[window.k + 1]
       IN  window' = [window EXCEPT !.k = @ + 1,
                                    !.free = SplitFree(@, b[1], b[2])]
    /\ UNCHANGED <<build_vars, sweep, calls, slot, history>>

\* line 84
WindowReturn ==
    /\ window.pc = "loop"
    /\ window.k = Len(window.blocked)
    /\ window' = [window EXCEPT !.pc = "returned"]
    /\ UNCHANGED <<build_vars, sweep, calls, slot, history>>

WindowNext == WindowBlock \/ WindowReturn

WindowSpec == WindowInit /\ [][WindowNext]_vars

\* ---------------------------- _resolve_residual_overlaps on its own
\* Tasks as step 5 hands them over: two overlapping proposals (10:00-11:00,
\* and 10:30-11:30 with estimated_minutes unlike its width), a proposal nested
\* in the first, an anchor cutting into them, an anchor starting with the
\* first proposal, and an anchor after them all.
SweepPool ==
    { ScheduledTask(_make_slot(600, 660), PlainName("Study"), TRUE, 60),
      ScheduledTask(_make_slot(630, 690), PlainName("Gym"), FALSE, 45),
      ScheduledTask(_make_slot(615, 645), PlainName("Read"), TRUE, 30),
      ScheduledTask(_make_slot(630, 720), ClassName("Math"), FALSE, 90),
      ScheduledTask(_make_slot(600, 645), ClassName("Physics"), TRUE, 45),
      ScheduledTask(_make_slot(720, 780), ClassName("Lab"), FALSE, 60) }

\* "a sorted task list" (docstring, line 91): ascending start
SortedByStart(tasks) ==
    \A k \in 1..(Len(tasks) - 1) :
        _parse_slot(tasks[k].time_slot)[1] <= _parse_slot(tasks[k + 1].time_slot)[1]

\* the call and lines 96-99
SweepInit ==
    /\ NoBuild
    /\ window = NoWindow
    /\ calls = NoCalls
    /\ slot = NoSlot
    /\ history = NoHistory
    /\ \E tasks \in SeqsUpTo(SweepPool, MaxSweep) :
           /\ SortedByStart(tasks)
           /\ sweep = IF tasks = <<>>
                      THEN [pc |-> "returned", tasks |-> tasks, k |-> 0,
                            result |-> tasks]
                      ELSE [pc |-> "loop", tasks |-> tasks, k |-> 1,
                            result |-> <<tasks[1]>>]

\* lines 101-136: one pass of the loop, on tasks[k + 1]
SweepStep ==
    /\ sweep.pc = "loop"
    /\ sweep.k < Len(sweep.tasks)
    /\ sweep' = [sweep EXCEPT !.k = @ + 1,
                              !.result = ResolveStep(@, sweep.tasks[sweep.k + 1])]
    /\ UNCHANGED <<build_vars, window, calls, slot, history>>

\* line 138
SweepReturn ==
    /\ sweep.pc = "loop"
    /\ sweep.k = Len(sweep.tasks)
    /\ sweep' = [sweep EXCEPT !.pc = "returned"]
    /\ UNCHANGED <<build_vars, window, calls, slot, history>>

SweepNext == SweepStep \/ SweepReturn

SweepSpec == SweepInit /\ [][SweepNext]_vars

\* ------------------------------ _make_slot and _parse_slot back to back
\* minute values on both sides of 24:00 and of 48:00, and past 99:59
SlotMinutes ==
    { h * 60 + m : h \in {0, 1, 9, 23, 24, 25, 47, 48, 100}, m \in {0, 1, 59} }

SlotInit ==
    /\ NoBuild
    /\ window = NoWindow
    /\ sweep = NoSweep
    /\ calls = NoCalls
    /\ history = NoHistory
    /\ \E s \in SlotMinutes, e \in SlotMinutes :
           /\ s < e
           /\ slot = [pc |-> "start", s |-> s, e |-> e, text |-> <<>>,
                      parsed |-> <<>>]

\* time_slot=_make_slot(s, e), as where an entry is built (lines 210, 238)
SlotMake ==
    /\ slot.pc = "start"
    /\ slot' = [slot EXCEPT !.pc = "made", !.text = _make_slot(slot.s, slot.e)]
    /\ UNCHANGED <<build_vars, window, sweep, calls, history>>

\* _parse_slot(t.time_slot), as where an entry is read again (lines 103-104, 218)
SlotParse ==
    /\ slot.pc = "made"
    /\ slot' = [slot EXCEPT !.pc = "parsed", !.parsed = _parse_slot(slot.text)]
    /\ UNCHANGED <<build_vars, window, sweep, calls, history>>

SlotNext == SlotMake \/ SlotParse

SlotSpec == SlotInit /\ [][SlotNext]_vars

\* ------------------------------------- one user's history and reflection
\* JSON null
None == [date |-> "null", id |-> 0]
\* the dates the requests are made for
Dates == {"D1", "D2"}

\* HistoryManager.save_plan: one line appended
save_plan(lines, plan) ==
    Append(lines, [date |-> plan.date, generated_plan |-> plan, completion |-> None])

\* HistoryManager.save_completion: [updated, lines]
save_completion(lines, date, completion_data) ==
    LET merges(entry) == entry.date = date /\ entry.completion = None
        updated == \E k \in 1..Len(lines) : merges(lines[k])
        rewritten == [k \in 1..Len(lines) |->
                         IF merges(lines[k])
                         THEN [lines[k] EXCEPT !.completion = completion_data]
                         ELSE lines[k]]
    IN  [updated |-> updated,
         lines |-> IF updated THEN rewritten
                   ELSE Append(rewritten,
                               [date |-> date, generated_plan |-> None,
                                completion |-> completion_data])]

\* HistoryManager.get_entry_for_date: the first line of that date, or None
get_entry_for_date(lines, date) ==
    IF \E k \in 1..Len(lines) : lines[k].date = date
    THEN lines[CHOOSE k \in 1..Len(lines) :
                   /\ lines[k].date = date
                   /\ \A l \in 1..(k - 1) : lines[l].date # date]
    ELSE None

\* no reflection asked for yet
NoReflection ==
    [status |-> 0, date |-> "null", plan |-> None, completion |-> None,
     plans_saved |-> {}, completions_logged |-> {}, policy_before |-> 0]

\* history_<user>.jsonl after touch(), policy_<user>.json absent
HistoryInit ==
    /\ NoBuild
    /\ window = NoWindow
    /\ sweep = NoSweep
    /\ calls = NoCalls
    /\ slot = NoSlot
    /\ history = [pc |-> "serving", lines |-> <<>>, requests |-> 0,
                  plans_saved |-> {}, completions_logged |-> {},
                  reflection_count |-> 0, last |-> NoReflection]

\* POST /generate_daily_routine for date d (main.py lines 24-61)
generate_daily_routine(d) ==
    /\ history.pc = "serving"
    /\ history.requests < MaxHistory
    /\ LET plan_dict == [date |-> d, id |-> history.requests + 1]
       IN  history' = [history EXCEPT !.lines = save_plan(@, plan_dict),
                                      !.requests = @ + 1,
                                      !.plans_saved = @ \cup {d}]
    /\ UNCHANGED <<build_vars, window, sweep, calls, slot>>

\* POST /log_completion for date d (main.py lines 67-75)
log_completion(d) ==
    /\ history.pc = "serving"
    /\ history.requests < MaxHistory
    /\ LET completion == [date |-> d, id |-> history.requests + 1]
       IN  history' = [history EXCEPT
                          !.lines = save_completion(@, d, completion).lines,
                          !.requests = @ + 1,
                          !.completions_logged = @ \cup {d}]
    /\ UNCHANGED <<build_vars, window, sweep, calls, slot>>

\* POST /trigger_reflection for date d (main.py lines 81-107)
trigger_reflection(d) ==
    /\ history.pc = "serving"
    /\ history.reflection_count < MaxReflections
    /\ LET entry == get_entry_for_date(history.lines, d)
           asked == [NoReflection EXCEPT
                        !.date = d,
                        !.plans_saved = history.plans_saved,
                        !.completions_logged = history.completions_logged,
                        !.policy_before = history.reflection_count]
       IN  IF entry = None
           THEN history' = [history EXCEPT !.last = [asked EXCEPT !.status = 404]]
           ELSE IF entry.completion = None \/ entry.generated_plan = None
           THEN history' = [history EXCEPT !.last = [asked EXCEPT !.status = 400]]
           ELSE history' = [history EXCEPT
                               !.last = [asked EXCEPT
                                            !.status = 200,
                                            !.plan = entry.generated_plan,
                                            !.completion = entry.completion],
                               !.reflection_count = @ + 1]
    /\ UNCHANGED <<build_vars, window, sweep, calls, slot>>

HistoryNext ==
    \E d \in Dates :
        generate_daily_routine(d) \/ log_completion(d) \/ trigger_reflection(d)

HistorySpec == HistoryInit /\ [][HistoryNext]_vars

\* ------------------------------- several calls in progress side by side
\* the parameters and locals of a call that has just been made
NewCall(tasks, entries) ==
    [llm_tasks |-> tasks, timetable_entries |-> entries, pc |-> "start",
     class_tasks |-> <<>>, fixed_intervals |-> <<>>, fitted_personal |-> <<>>,
     merged |-> <<>>]

\* the <<llm_tasks, timetable_entries>> the calls are made with
CallInputs ==
    { <<<<>>, <<>>>>,
      << <<ScheduledTask(<<HHMM(9, 30), HHMM(10, 30)>>, PlainName("Study"), TRUE, 60)>>,
         <<TimetableSlot(HHMM(9, 0), HHMM(10, 0), "Math", TRUE)>> >>,
      << <<ScheduledTask(<<HHMM(9, 30), HHMM(10, 30)>>, PlainName("Study"), TRUE, 60),
           ScheduledTask(<<HHMM(9, 60), HHMM(11, 0)>>, PlainName("Gym"), FALSE, 45)>>,
         <<TimetableSlot(HHMM(9, 30), HHMM(11, 0), "Chem", TRUE),
           TimetableSlot(HHMM(9, 0), HHMM(10, 0), "Physics", FALSE)>> >>,
      << <<ScheduledTask(<<HHMM(22, 0), HHMM(2, 0)>>, PlainName("Sleep"), TRUE, 240)>>,
         <<TimetableSlot(HHMM(23, 0), HHMM(1, 0), "Lab", TRUE)>> >>,
      << <<ScheduledTask(<<HHMM(9, 30), HHMM(10, 30)>>, PlainName("Study"), TRUE, 60)>>,
         <<TimetableSlot(JunkStr, HHMM(10, 0), "Math", TRUE)>> >> }

\* all calls read one call's accumulators
FirstCallLocals(cs, c) == cs[1]

\* the accumulators call c reads: the locals of its own frame
OwnLocals(cs, c) == cs[c]

CallsInit ==
    /\ NoBuild
    /\ window = NoWindow
    /\ sweep = NoSweep
    /\ slot = NoSlot
    /\ history = NoHistory
    /\ calls \in [1..MaxCalls -> { NewCall(x[1], x[2]) : x \in CallInputs }]

\* Steps 1-2 and lines 217-218 of call c
CallExtractAnchors(c) ==
    /\ calls[c].pc = "start"
    /\ LET x == ExtractClassTasks(calls[c].timetable_entries)
       IN  calls' = [calls EXCEPT ![c] =
                        IF x.raised
                        THEN [@ EXCEPT !.pc = "raised"]
                        ELSE [@ EXCEPT !.pc = "anchors",
                                       !.class_tasks = x.class_tasks,
                                       !.fixed_intervals = FixedIntervals(x.class_tasks)]]
    /\ UNCHANGED <<build_vars, window, sweep, slot, history>>

\* Steps 3-4 of call c
CallFitPersonal(c) ==
    /\ calls[c].pc = "anchors"
    /\ LET f == FitTasks(PersonalTasks(calls[c].llm_tasks),
                         OwnLocals(calls, c).fixed_intervals, <<>>)
       IN  calls' = [calls EXCEPT ![c] =
                        IF f.raised
                        THEN [@ EXCEPT !.pc = "raised"]
                        ELSE [@ EXCEPT !.pc = "fitted",
                                       !.fitted_personal = f.fitted]]
    /\ UNCHANGED <<build_vars, window, sweep, slot, history>>

\* Step 5 and the return of call c
CallResolve(c) ==
    /\ calls[c].pc = "fitted"
    /\ calls' = [calls EXCEPT ![c] =
                    [@ EXCEPT !.pc = "done",
                              !.merged = MergeAndResolve(
                                             OwnLocals(calls, c).class_tasks,
                                             OwnLocals(calls, c).fitted_personal)]]
    /\ UNCHANGED <<build_vars, window, sweep, slot, history>>

CallsNext ==
    \E c \in 1..MaxCalls :
        CallExtractAnchors(c) \/ CallFitPersonal(c) \/ CallResolve(c)

CallsSpec == CallsInit /\ [][CallsNext]_vars

\* ------------------------------------------------------------ properties
StartOf(t) == _parse_slot(t.time_slot)[1]
EndOf(t) == _parse_slot(t.time_slot)[2]
IsAnchorEntry(t) == t.task_name.class_tag
AnchorEntries(tasks) == SelectSeq(tasks, IsAnchorEntry)
ProposalEntries(tasks) == SelectSeq(tasks, LAMBDA t : ~IsAnchorEntry(t))
Unparsable(t) == ParseSlotRaises(t.time_slot)
RemoveAt(seq, i) == SubSeq(seq, 1, i - 1) \o SubSeq(seq, i + 1, Len(seq))
\* a record that is not skipped and whose start or end text cannot be read
RecordUnreadable(e) ==
    /\ e.start_time.kind # "empty" /\ e.end_time.kind # "empty"
    /\ (e.start_time.kind = "junk" \/ e.end_time.kind = "junk")
\* two parsable proposals of the input overlap one another
InputProposalsCollide ==
    \E i, j \in 1..Len(llm_tasks) :
        /\ i < j
        /\ ~Unparsable(llm_tasks[i]) /\ ~Unparsable(llm_tasks[j])
        /\ ~IsAnchorEntry(llm_tasks[i]) /\ ~IsAnchorEntry(llm_tasks[j])
        /\ StartOf(llm_tasks[i]) < EndOf(llm_tasks[j])
        /\ StartOf(llm_tasks[j]) < EndOf(llm_tasks[i])

C2_AnchorsUnchanged ==
    pc = "done" => AnchorEntries(merged) = class_tasks

\* C2 witness: anchors returned beside proposals that overlapped them and a
\* proposal that carries an anchor's name.
C2_Witness ==
    /\ pc = "done"
    /\ Len(class_tasks) >= 1
    /\ \E i \in 1..Len(llm_tasks) : IsAnchorEntry(llm_tasks[i])
    /\ \E i \in 1..Len(llm_tasks), k \in 1..Len(class_tasks) :
           /\ ~Unparsable(llm_tasks[i]) /\ ~IsAnchorEntry(llm_tasks[i])
           /\ StartOf(llm_tasks[i]) < EndOf(class_tasks[k])
           /\ StartOf(class_tasks[k]) < EndOf(llm_tasks[i])

\* C3: no proposal list makes the function raise (it raises only on a
\* commitment record whose text cannot be read), and a proposal whose interval
\* cannot be parsed is skipped: the result is the result for the list without it.
C3_UnparsableSkipped ==
    /\ pc = "raised" =>
           \E k \in 1..Len(timetable_entries) : RecordUnreadable(timetable_entries[k])
    /\ pc = "done" =>
           \A i \in 1..Len(llm_tasks) :
               Unparsable(llm_tasks[i]) =>
                   LET r == build_collision_free_schedule(RemoveAt(llm_tasks, i),
                                                          timetable_entries)
                   IN  ~r.raised /\ r.result = merged

\* C3 witness: a result for a list that holds an unparsable proposal beside a
\* proposal that is placed.
C3_Witness ==
    /\ pc = "done"
    /\ \E i \in 1..Len(llm_tasks) : Unparsable(llm_tasks[i])
    /\ Len(ProposalEntries(merged)) >= 1

\* the proposal lists a second run is given in C4
OtherTaskLists == {<<>>} \cup { <<p>> : p \in TaskPool }

\* C4: no entry of the result derives from a proposal named [CLASS]...: the
\* result is the result for the list without those proposals, its [CLASS]
\* entries are the extractor's anchors, and they are the same in a run on the
\* same commitment records with another proposal list.
C4_ClassProposalsDiscarded ==
    pc = "done" =>
        /\ merged = build_collision_free_schedule(ProposalEntries(llm_tasks),
                                                  timetable_entries).result
        /\ AnchorEntries(merged) = class_tasks
        /\ \A other \in OtherTaskLists :
               AnchorEntries(build_collision_free_schedule(other,
                                 timetable_entries).result) = AnchorEntries(merged)

\* C4 witness: a proposal named [CLASS] Math on a window no anchor holds, and
\* a result without it.
C4_Witness ==
    /\ pc = "done"
    /\ class_tasks = <<>>
    /\ \E i \in 1..Len(llm_tasks) :
           IsAnchorEntry(llm_tasks[i]) /\ ~Unparsable(llm_tasks[i])
    /\ Len(merged) >= 1

\* a commitment record with start and end text the code can read
RecordUsable(e) == e.start_time.kind = "hhmm" /\ e.end_time.kind = "hhmm"
RecordStart(e) == e.start_time.h * 60 + e.start_time.m
RecordEnd(e) ==
    LET end == e.end_time.h * 60 + e.end_time.m
    IN  IF end <= RecordStart(e) THEN end + 1440 ELSE end
RecordTriple(e) == <<e.start_time, e.end_time, e.subject>>
UniqueTriple(i) ==
    \A j \in 1..Len(timetable_entries) :
        j # i => RecordTriple(timetable_entries[j]) # RecordTriple(timetable_entries[i])
\* record e is in the result as an anchor
AppearsAsAnchor(e) ==
    \E k \in 1..Len(merged) :
        /\ IsAnchorEntry(merged[k])
        /\ merged[k].task_name.text = e.subject
        /\ StartOf(merged[k]) = RecordStart(e)
        /\ EndOf(merged[k]) = RecordEnd(e)
        /\ merged[k].is_attendance_safe = ~e.is_attendance_critical
        /\ merged[k].estimated_minutes = RecordEnd(e) - RecordStart(e)
RecordsOverlap(e, f) ==
    RecordStart(e) < RecordEnd(f) /\ RecordStart(f) < RecordEnd(e)
\* record i is usable, has a unique triple and is not in the result
UniqueRecordAbsent(i) ==
    /\ RecordUsable(timetable_entries[i])
    /\ UniqueTriple(i)
    /\ ~AppearsAsAnchor(timetable_entries[i])

\* C5 as stated: a record with a unique (start, end, label) is absent from the
\* result only if an anchor of the result with a strictly earlier start
\* overlaps its interval.
C5_AbsentOnlyIfEarlierStart ==
    pc = "done" =>
        \A i \in 1..Len(timetable_entries) :
            UniqueRecordAbsent(i) =>
                \E k \in 1..Len(merged) :
                    /\ IsAnchorEntry(merged[k])
                    /\ StartOf(merged[k]) < RecordStart(timetable_entries[i])
                    /\ StartOf(merged[k]) < RecordEnd(timetable_entries[i])
                    /\ RecordStart(timetable_entries[i]) < EndOf(merged[k])

\* record j supersedes record i: it is in the result, overlaps i, and starts
\* earlier or starts at the same minute and stands earlier in the input
Supersedes(j, i) ==
    /\ RecordUsable(timetable_entries[j])
    /\ AppearsAsAnchor(timetable_entries[j])
    /\ RecordsOverlap(timetable_entries[j], timetable_entries[i])
    /\ \/ RecordStart(timetable_entries[j]) < RecordStart(timetable_entries[i])
       \/ /\ RecordStart(timetable_entries[j]) = RecordStart(timetable_entries[i])
          /\ j < i

\* C5 (amended): a record with readable start and end and a unique (start,
\* end, label) is absent from the result only if an anchor of the result
\* overlaps its interval and either starts earlier or starts at the same
\* minute and comes from a record earlier in the input.
C5_AbsentOnlyIfSuperseded ==
    pc = "done" =>
        \A i \in 1..Len(timetable_entries) :
            UniqueRecordAbsent(i) =>
                \E j \in 1..Len(timetable_entries) : j # i /\ Supersedes(j, i)

\* C5 witness: a unique record left out for an anchor that starts at the same
\* minute, beside a unique record that is in the result.
C5_Witness ==
    /\ pc = "done"
    /\ \E i, j \in 1..Len(timetable_entries) :
           /\ UniqueRecordAbsent(i)
           /\ Supersedes(j, i)
           /\ UniqueTriple(j)
           /\ RecordStart(timetable_entries[j]) = RecordStart(timetable_entries[i])

\* C6: the result fed back as the proposal list, with the same commitment
\* records, gives the same list entry by entry.
C6_Idempotent ==
    pc = "done" =>
        LET again == build_collision_free_schedule(merged, timetable_entries)
        IN  ~again.raised /\ again.result = merged

\* C6 witness: a result with an anchor that ends past 24:00, a proposal entry
\* that starts past 24:00 and a proposal that the resolver changed.
C6_Witness ==
    /\ pc = "done"
    /\ \E k \in 1..Len(merged) : IsAnchorEntry(merged[k]) /\ EndOf(merged[k]) > 1440
    /\ \E k \in 1..Len(merged) : ~IsAnchorEntry(merged[k]) /\ StartOf(merged[k]) >= 1440
    /\ InputProposalsCollide

\* proposal p reaches the Task Fitter: its name is not [CLASS]... and its
\* interval parses
Fittable(p) == ~IsAnchorEntry(p) /\ ~Unparsable(p)
\* entry e lies inside the interval of proposal p and carries its name and flag
DerivesFrom(e, p) ==
    /\ Fittable(p)
    /\ e.task_name = p.task_name
    /\ e.is_attendance_safe = p.is_attendance_safe
    /\ StartOf(p) <= StartOf(e)
    /\ EndOf(e) <= EndOf(p)

\* C7: every non-anchor entry of the result lies inside the interval of an
\* input proposal with the same label and attendance flag, and the non-anchor
\* entries are pairwise disjoint.
C7_InsideProposalSpan ==
    pc = "done" =>
        /\ \A k \in 1..Len(merged) :
               ~IsAnchorEntry(merged[k]) =>
                   /\ StartOf(merged[k]) < EndOf(merged[k])
                   /\ \E i \in 1..Len(llm_tasks) : DerivesFrom(merged[k], llm_tasks[i])
        /\ \A k, l \in 1..Len(merged) :
               (k # l /\ ~IsAnchorEntry(merged[k]) /\ ~IsAnchorEntry(merged[l])) =>
                   \/ EndOf(merged[k]) <= StartOf(merged[l])
                   \/ EndOf(merged[l]) <= StartOf(merged[k])

\* C7 witness: beside an anchor, a result with an entry the Task Fitter cut
\* from its proposal and an entry the resolver cut further.
C7_Witness ==
    /\ pc = "done"
    /\ Len(AnchorEntries(merged)) >= 1
    /\ \E k \in 1..Len(merged), n \in 1..Len(fitted_personal) :
           /\ fitted_personal[n] = merged[k]
           /\ \A i \in 1..Len(llm_tasks) :
                  DerivesFrom(merged[k], llm_tasks[i]) =>
                      StartOf(llm_tasks[i]) < StartOf(merged[k])
    /\ \E k \in 1..Len(merged) :
           /\ ~IsAnchorEntry(merged[k])
           /\ \A n \in 1..Len(fitted_personal) : fitted_personal[n] # merged[k]

\* the anchors as intervals, read from class_tasks
AnchorSpans == { <<StartOf(class_tasks[k]), EndOf(class_tasks[k])>> : k \in 1..Len(class_tasks) }
FreeOfAnchors(a, b) == \A x \in AnchorSpans : ~(x[1] < b /\ a < x[2])
CoveredByAnchor(m) == \E x \in AnchorSpans : x[1] <= m /\ m < x[2]
\* the maximal sub-intervals of [s, e) that no anchor covers
MaximalFree(s, e) ==
    LET points == {s, e} \cup { x[1] : x \in AnchorSpans } \cup { x[2] : x \in AnchorSpans }
    IN  { w \in points \X points :
            /\ s <= w[1] /\ w[1] < w[2] /\ w[2] <= e
            /\ FreeOfAnchors(w[1], w[2])
            /\ (w[1] = s \/ CoveredByAnchor(w[1] - 1))
            /\ (w[2] = e \/ CoveredByAnchor(w[2])) }
\* a set of disjoint intervals, left to right
RECURSIVE LeftToRight(_)
LeftToRight(ws) ==
    IF ws = {} THEN <<>>
    ELSE LET first == CHOOSE w \in ws : \A v \in ws : w[1] <= v[1]
         IN  <<first>> \o LeftToRight(ws \ {first})
\* what a task is: interval in minutes, name, flag, estimated minutes
Described(t) ==
    <<StartOf(t), EndOf(t), t.task_name, t.is_attendance_safe, t.estimated_minutes>>
DescribedAll(tasks) == [k \in 1..Len(tasks) |-> Described(tasks[k])]
\* the entries C8 expects of proposal p
ExpectedOf(p) ==
    LET ws == LeftToRight(MaximalFree(StartOf(p), EndOf(p)))
    IN  [k \in 1..Len(ws) |->
            <<ws[k][1], ws[k][2], p.task_name, p.is_attendance_safe, ws[k][2] - ws[k][1]>>]
RECURSIVE ExpectedFitted(_)
ExpectedFitted(tasks) ==
    IF tasks = <<>> THEN <<>>
    ELSE (IF Fittable(tasks[1]) THEN ExpectedOf(tasks[1]) ELSE <<>>)
         \o ExpectedFitted(Tail(tasks))
ExampleTask(sh, sm, eh, em) ==
    ScheduledTask(<<HHMM(sh, sm), HHMM(eh, em)>>, PlainName("Study"), TRUE, 60)

\* C8: for each parsable proposal not named [CLASS]..., the Task Fitter emits
\* one entry per maximal sub-interval of the proposal that is free of every
\* anchor, left to right, with the proposal's label and flag and the width as
\* duration; [09:10,09:40) inside anchor [09:00,10:00) gives nothing, as does
\* [09:30,10:30) under anchors [09:00,10:00) and [10:00,11:00); [09:30,10:30)
\* against anchor [09:00,10:00) gives exactly [10:00,10:30), duration 30.
C8_OneEntryPerFreeWindow ==
    /\ pc \in {"fitted", "done"} =>
           DescribedAll(fitted_personal) = ExpectedFitted(llm_tasks)
    /\ FitTasks(<<ExampleTask(9, 10, 9, 40)>>, <<(<<540, 600>>)>>, <<>>).fitted = <<>>
    /\ FitTasks(<<ExampleTask(9, 30, 10, 30)>>, <<(<<540, 600>>), (<<600, 660>>)>>,
                <<>>).fitted = <<>>
    /\ FitTasks(<<ExampleTask(9, 30, 10, 30)>>, <<(<<540, 600>>)>>, <<>>).fitted
           = <<ScheduledTask(<<HHMM(10, 0), HHMM(10, 30)>>, PlainName("Study"), TRUE, 30)>>

\* C8 witness: the Task Fitter has cut one proposal in two around an anchor
\* and dropped another that an anchor covers.
C8_Witness ==
    /\ pc = "fitted"
    /\ \E i \in 1..Len(llm_tasks) :
           Fittable(llm_tasks[i]) /\ Len(ExpectedOf(llm_tasks[i])) = 2
    /\ \E i \in 1..Len(llm_tasks) :
           /\ Fittable(llm_tasks[i])
           /\ StartOf(llm_tasks[i]) < EndOf(llm_tasks[i])
           /\ Len(ExpectedOf(llm_tasks[i])) = 0
    /\ Len(fitted_personal) = 2

\* proposal p reaches the Task Fitter and overlaps no anchor
ClearOfAnchors(p) ==
    /\ Fittable(p)
    /\ \A k \in 1..Len(fixed_intervals) :
           ~(StartOf(p) < fixed_intervals[k][2] /\ fixed_intervals[k][1] < EndOf(p))
FittedAlone(p) == FitTasks(<<p>>, fixed_intervals, <<>>).fitted

\* C9 as stated: a parsable proposal that overlaps no anchor yields exactly one
\* fitted entry with the proposal's interval, label, flag and estimated minutes.
C9_IdenticalEntry ==
    pc \in {"fitted", "done"} =>
        \A i \in 1..Len(llm_tasks) :
            ClearOfAnchors(llm_tasks[i]) =>
                /\ Len(FittedAlone(llm_tasks[i])) = 1
                /\ Described(FittedAlone(llm_tasks[i])[1]) = Described(llm_tasks[i])

\* C9 (amended): a parsable proposal of positive width that overlaps no anchor
\* yields exactly one fitted entry with the proposal's interval, label and
\* flag; its estimated minutes are the width of the interval, which is the
\* proposal's own value only when that value is the width.
C9_SameIntervalWidthAsEstimate ==
    pc \in {"fitted", "done"} =>
        \A i \in 1..Len(llm_tasks) :
            (ClearOfAnchors(llm_tasks[i]) /\ StartOf(llm_tasks[i]) < EndOf(llm_tasks[i])) =>
                LET p == llm_tasks[i]
                    made == FittedAlone(p)
                IN  /\ Len(made) = 1
                    /\ Described(made[1]) = <<StartOf(p), EndOf(p), p.task_name,
                                              p.is_attendance_safe, EndOf(p) - StartOf(p)>>
                    /\ \E n \in 1..Len(fitted_personal) : fitted_personal[n] = made[1]

\* C9 witness: beside an anchor, the Task Fitter has passed on a proposal that
\* overlaps no anchor and whose estimated minutes are not its width.
C9_Witness ==
    /\ pc = "fitted"
    /\ Len(fixed_intervals) >= 1
    /\ \E i \in 1..Len(llm_tasks) :
           /\ ClearOfAnchors(llm_tasks[i])
           /\ StartOf(llm_tasks[i]) < EndOf(llm_tasks[i])
           /\ llm_tasks[i].estimated_minutes # EndOf(llm_tasks[i]) - StartOf(llm_tasks[i])

Blocked(m) ==
    \E k \in 1..Len(window.blocked) :
        window.blocked[k][1] <= m /\ m < window.blocked[k][2]
\* minute m is inside some window of the result
InFree(m) ==
    \E k \in 1..Len(window.free) : window.free[k][1] <= m /\ m < window.free[k][2]
\* a blocker takes part of [S, E)
CutsWindow(b) == b[1] < window.end /\ window.start < b[2]

\* C11: for S < E and blockers with start < end, in any order and overlapping
\* or not, the result is the maximal sub-intervals of [S, E) no blocker covers,
\* left to right: windows of positive width inside [S, E), each ending before
\* the next starts (not adjacent), that hold exactly the minutes of [S, E)
\* outside every blocker; Window([09:00,12:00), [[09:00,10:00),[11:00,11:30)])
\* is [[10:00,11:00),[11:30,12:00)].
C11_MaximalFreeWindows ==
    /\ window.pc = "returned" =>
           /\ \A k \in 1..Len(window.free) :
                  /\ window.start <= window.free[k][1]
                  /\ window.free[k][1] < window.free[k][2]
                  /\ window.free[k][2] <= window.end
           /\ \A k \in 1..(Len(window.free) - 1) :
                  window.free[k][2] < window.free[k + 1][1]
           /\ \A m \in window.start..(window.end - 1) : InFree(m) <=> ~Blocked(m)
    /\ _subtract_intervals(540, 720, <<(<<540, 600>>), (<<660, 690>>)>>)
           = <<(<<600, 660>>), (<<690, 720>>)>>

\* C11 witness: the call of the example has returned its two windows.
C11_Witness ==
    /\ window.pc = "returned"
    /\ window.start = 540 /\ window.end = 720
    /\ window.blocked = <<(<<660, 690>>), (<<540, 600>>)>>
    /\ window.free = <<(<<600, 660>>), (<<690, 720>>)>>

\* the blockers in the order perm gives
Permuted(blocked, perm) == [k \in 1..Len(blocked) |-> blocked[perm[k]]]

\* C12: every order of the same blockers gives the same windows, and one more
\* blocker that lies outside [S, E), touching S or E or not, changes nothing,
\* wherever it stands in the list.
C12_OrderAndOutsideBlockers ==
    window.pc = "returned" =>
        /\ \A perm \in Permutations(1..Len(window.blocked)) :
               _subtract_intervals(window.start, window.end,
                                   Permuted(window.blocked, perm)) = window.free
        /\ \A b \in WindowSpans :
               ~CutsWindow(b) =>
                   /\ _subtract_intervals(window.start, window.end,
                                          Append(window.blocked, b)) = window.free
                   /\ _subtract_intervals(window.start, window.end,
                                          <<b>> \o window.blocked) = window.free

\* C12 witness: a call with two different blockers that cut the window, the
\* later one starting before the earlier, windows left over, and a blocker
\* that only touches the window.
C12_Witness ==
    /\ window.pc = "returned"
    /\ Len(window.blocked) = 2
    /\ CutsWindow(window.blocked[1]) /\ CutsWindow(window.blocked[2])
    /\ window.blocked[2][1] < window.blocked[1][1]
    /\ Len(window.free) >= 1
    /\ \E b \in WindowSpans : b[1] = window.end \/ b[2] = window.start

\* ------------------------------------------ properties of the anchor set
AnchorsMade == pc \in {"anchors", "fitted", "done"}

Ended == pc \in {"done", "raised"}
\* the call ended as a call on the commitment records `entries` ends
SameOutcomeFor(entries) ==
    LET other == build_collision_free_schedule(llm_tasks, entries)
    IN  /\ other.raised <=> pc = "raised"
        /\ pc = "done" => other.result = merged
\* record j repeats the (start, end, label) of an earlier record
LaterDuplicate(j) ==
    \E i \in 1..(j - 1) :
        RecordTriple(timetable_entries[i]) = RecordTriple(timetable_entries[j])
RECURSIVE WithoutLaterDuplicates(_, _)
WithoutLaterDuplicates(j, kept) ==
    IF j > Len(timetable_entries) THEN kept
    ELSE WithoutLaterDuplicates(j + 1,
             IF LaterDuplicate(j) THEN kept ELSE Append(kept, timetable_entries[j]))

\* C14: of several records with the same (start, end, label) only the first
\* counts: the call ends as it ends on the input without the later ones,
\* whatever their criticality flag.
C14_FirstDuplicateOnly ==
    Ended => SameOutcomeFor(WithoutLaterDuplicates(1, <<>>))

\* C14 witness: a result whose anchor comes from a record that a later
\* record repeats with the other criticality flag.
C14_Witness ==
    /\ pc = "done"
    /\ \E i, j \in 1..Len(timetable_entries) :
           /\ i < j
           /\ RecordUsable(timetable_entries[i])
           /\ RecordTriple(timetable_entries[i]) = RecordTriple(timetable_entries[j])
           /\ timetable_entries[i].is_attendance_critical
                  # timetable_entries[j].is_attendance_critical
           /\ AppearsAsAnchor(timetable_entries[i])

\* the clock readings of a proposal's interval text, before any wrap
RawStart(p) == p.time_slot[1].h * 60 + p.time_slot[1].m
RawEnd(p) == p.time_slot[2].h * 60 + p.time_slot[2].m
Parsed == pc \in {"fitted", "done"}

\* C15 as stated: every parsed proposal interval has end > start.
C15_EveryParsedIntervalPositive ==
    Parsed =>
        \A i \in 1..Len(llm_tasks) :
            Fittable(llm_tasks[i]) =>
                _parse_slot(llm_tasks[i].time_slot)[2]
                    > _parse_slot(llm_tasks[i].time_slot)[1]

\* C15: an interval whose end reads at or before its start gets 1440 added to
\* the end and is otherwise left as read; "22:00-02:00" parses to (1320, 1560);
\* a proposal interval or an anchor that starts before 24:00 has end > start,
\* and a proposal clear of the anchors is fitted on the wrapped interval.
C15_WrapAddsDay ==
    Parsed =>
           /\ _parse_slot(<<HHMM(22, 0), HHMM(2, 0)>>) = <<1320, 1560>>
           /\ \A i \in 1..Len(llm_tasks) :
                  LET p == llm_tasks[i]
                      end == IF RawEnd(p) <= RawStart(p)
                             THEN RawEnd(p) + 1440 ELSE RawEnd(p)
                  IN  Fittable(p) =>
                          /\ _parse_slot(p.time_slot) = <<RawStart(p), end>>
                          /\ RawStart(p) < 1440 => end > RawStart(p)
                          /\ (end > RawStart(p)
                              /\ \A k \in 1..Len(fixed_intervals) :
                                     \/ fixed_intervals[k][2] <= RawStart(p)
                                     \/ end <= fixed_intervals[k][1])
                             => \E k \in 1..Len(fitted_personal) :
                                    fitted_personal[k] =
                                        ScheduledTask(_make_slot(RawStart(p), end),
                                                      p.task_name, p.is_attendance_safe,
                                                      end - RawStart(p))
           /\ \A k \in 1..Len(class_tasks) :
                  /\ fixed_intervals[k][1] < 1440
                         => fixed_intervals[k][2] > fixed_intervals[k][1]
                  /\ \E i \in 1..Len(timetable_entries) :
                         /\ RecordUsable(timetable_entries[i])
                         /\ fixed_intervals[k] = <<RecordStart(timetable_entries[i]),
                                                   RecordEnd(timetable_entries[i])>>

\* C15 witness: the overnight proposal 22:00-02:00 fitted as [1320, 1560),
\* 240 minutes, beside a proposal that starts after 24:00 and parses to an
\* empty interval.
C15_Witness ==
    /\ pc = "fitted"
    /\ \E k \in 1..Len(fitted_personal) :
           fitted_personal[k] =
               ScheduledTask(_make_slot(1320, 1560), PlainName("Sleep"), TRUE, 240)
    /\ \E i \in 1..Len(llm_tasks) :
           /\ Fittable(llm_tasks[i])
           /\ RawStart(llm_tasks[i]) >= 1440
           /\ _parse_slot(llm_tasks[i].time_slot)[2]
                  = _parse_slot(llm_tasks[i].time_slot)[1]

\* record e has no start text or no end text
RecordIncomplete(e) == e.start_time.kind = "empty" \/ e.end_time.kind = "empty"

\* C16: a commitment record with a missing or empty start or end is passed
\* over without raising: the call ends as it ends on the input without that
\* record, and it raises only when some complete record has unreadable text.
C16_IncompleteRecordSkipped ==
    Ended =>
        /\ \A i \in 1..Len(timetable_entries) :
               RecordIncomplete(timetable_entries[i])
                   => SameOutcomeFor(RemoveAt(timetable_entries, i))
        /\ pc = "raised" =>
               \E i \in 1..Len(timetable_entries) :
                   /\ ~RecordIncomplete(timetable_entries[i])
                   /\ ~RecordUsable(timetable_entries[i])

\* C16 witness: a result with an anchor and a fitted proposal, from an input
\* holding a record without start text and a record without end text.
C16_Witness ==
    /\ pc = "done"
    /\ \E i, j \in 1..Len(timetable_entries) :
           /\ timetable_entries[i].start_time.kind = "empty"
           /\ timetable_entries[j].end_time.kind = "empty"
           /\ timetable_entries[j].start_time.kind = "hhmm"
    /\ \E k, l \in 1..Len(merged) :
           IsAnchorEntry(merged[k]) /\ ~IsAnchorEntry(merged[l])

\* call c has ended as a call made alone with its parameters ends
EndsAsAlone(c) ==
    LET alone == build_collision_free_schedule(calls[c].llm_tasks,
                                               calls[c].timetable_entries)
    IN  /\ calls[c].pc = "raised" <=> alone.raised
        /\ calls[c].pc = "done" => calls[c].merged = alone.result
\* no step changes the parameters of any call
InputsKept ==
    \A c \in DOMAIN calls :
        /\ calls'[c].llm_tasks = calls[c].llm_tasks
        /\ calls'[c].timetable_entries = calls[c].timetable_entries

\* C17: calls share nothing: however the steps of several calls are
\* interleaved, one after the other included, each call ends as it ends when
\* made alone with its parameters, and no step changes the parameters of any
\* call.
C17_CallsIndependent ==
    /\ [](\A c \in DOMAIN calls :
              calls[c].pc \in {"done", "raised"} => EndsAsAlone(c))
    /\ [][InputsKept]_vars

\* C17 witness: the first call has returned a result with an anchor and a
\* fitted proposal while a second call, made with other parameters before the
\* first had fitted its proposals, holds anchors and fitted entries of its own.
C17_Witness ==
    /\ Len(calls) >= 2
    /\ calls[1].pc = "done" /\ calls[2].pc = "fitted"
    /\ calls[1].timetable_entries # calls[2].timetable_entries
    /\ calls[1].llm_tasks # calls[2].llm_tasks
    /\ Len(calls[1].merged) >= 2
    /\ calls[2].class_tasks # <<>> /\ calls[2].fitted_personal # <<>>
    /\ calls[2].class_tasks # calls[1].class_tasks

\* the records that become candidates: complete, and first of their
\* (start, end, label)
Candidates ==
    { i \in 1..Len(timetable_entries) :
        RecordUsable(timetable_entries[i]) /\ ~LaterDuplicate(i) }
\* the anchor made of record i is among the anchors
Accepted(i) ==
    LET e == timetable_entries[i]
    IN  \E k \in 1..Len(class_tasks) :
            class_tasks[k] =
                ScheduledTask(_make_slot(RecordStart(e), RecordEnd(e)),
                              ClassName(e.subject), ~e.is_attendance_critical,
                              RecordEnd(e) - RecordStart(e))
\* candidate j is scanned before candidate i
ScannedBefore(j, i) ==
    \/ RecordStart(timetable_entries[j]) < RecordStart(timetable_entries[i])
    \/ /\ RecordStart(timetable_entries[j]) = RecordStart(timetable_entries[i])
       /\ j < i

\* C18: the anchors are those of one greedy scan of the candidates by
\* ascending start, equal starts in input order: a candidate is accepted
\* exactly when it overlaps no candidate accepted before it, so one that
\* overlaps only discarded candidates is accepted; there are no other anchors.
C18_GreedyScan ==
    AnchorsMade =>
        /\ \A i \in Candidates :
               Accepted(i) <=>
                   ~\E j \in Candidates :
                        /\ ScannedBefore(j, i)
                        /\ Accepted(j)
                        /\ RecordsOverlap(timetable_entries[j], timetable_entries[i])
        /\ Len(class_tasks) = Cardinality({ i \in Candidates : Accepted(i) })

\* C18 witness: three candidates, the second in scan order discarded for the
\* first, the third accepted although it overlaps the discarded one; the
\* input does not list them by start.
C18_Witness ==
    /\ pc = "anchors"
    /\ Cardinality(Candidates) = 3
    /\ \E i, j, l \in Candidates :
           /\ ScannedBefore(i, j) /\ ScannedBefore(j, l)
           /\ Accepted(i) /\ ~Accepted(j) /\ Accepted(l)
           /\ RecordsOverlap(timetable_entries[j], timetable_entries[l])
           /\ ~(i < j /\ j < l)

\* the sweep takes an incoming task that starts before the end of the last
\* kept entry
Incoming == sweep.tasks[sweep.k + 1]
LastKept == sweep.result[Len(sweep.result)]
Collision ==
    /\ sweep.pc = "loop"
    /\ sweep.k < Len(sweep.tasks)
    /\ sweep'.k = sweep.k + 1
    /\ StartOf(Incoming) < EndOf(LastKept)
\* the two overlapping proposals of the example, and what is left of the second
TenToEleven == ScheduledTask(_make_slot(600, 660), PlainName("Study"), TRUE, 60)
HalfPastTen == ScheduledTask(_make_slot(630, 690), PlainName("Gym"), FALSE, 45)
ElevenOn == ScheduledTask(_make_slot(660, 690), PlainName("Gym"), FALSE, 30)

\* C19: when an incoming proposal starts before the end of the last kept
\* entry, the kept entries stay as they are, and the proposal is appended with
\* its start moved to that end and its duration recomputed if it ends after
\* that end, and is dropped otherwise; [10:00,11:00) followed by
\* [10:30,11:30) resolves to [10:00,11:00) then [11:00,11:30).
C19_ProposalPushedOrDropped ==
    /\ [][(Collision /\ ~IsAnchorEntry(Incoming)) =>
            sweep'.result =
                IF EndOf(Incoming) > EndOf(LastKept)
                THEN Append(sweep.result,
                            ScheduledTask(_make_slot(EndOf(LastKept), EndOf(Incoming)),
                                          Incoming.task_name,
                                          Incoming.is_attendance_safe,
                                          EndOf(Incoming) - EndOf(LastKept)))
                ELSE sweep.result]_vars
    /\ []((sweep.pc = "returned" /\ sweep.tasks = <<TenToEleven, HalfPastTen>>)
              => sweep.result = <<TenToEleven, ElevenOn>>)

\* C19 witness: the sweep has returned; of three proposals the second, nested
\* in the first, was dropped, and the third was pushed to the end of the first.
C19_Witness ==
    /\ sweep.pc = "returned"
    /\ Len(sweep.tasks) = 3
    /\ \A k \in 1..3 : ~IsAnchorEntry(sweep.tasks[k])
    /\ sweep.tasks[1] = TenToEleven
    /\ EndOf(sweep.tasks[2]) < EndOf(sweep.tasks[1])
    /\ sweep.tasks[3] = HalfPastTen
    /\ sweep.result = <<TenToEleven, ElevenOn>>

\* C20: when an incoming anchor starts before the end of the last kept entry,
\* the anchor is appended unchanged; a last kept proposal is cut to end at the
\* anchor's start with its duration recomputed, or removed when it does not
\* start before the anchor; a last kept anchor stays as it is.
C20_AnchorAppended ==
    [][(Collision /\ IsAnchorEntry(Incoming)) =>
          LET n == Len(sweep.result)
              before == SubSeq(sweep.result, 1, n - 1)
          IN  sweep'.result =
                  IF IsAnchorEntry(LastKept)
                  THEN Append(sweep.result, Incoming)
                  ELSE IF StartOf(LastKept) < StartOf(Incoming)
                  THEN before \o
                       << ScheduledTask(_make_slot(StartOf(LastKept), StartOf(Incoming)),
                                        LastKept.task_name,
                                        LastKept.is_attendance_safe,
                                        StartOf(Incoming) - StartOf(LastKept)),
                          Incoming >>
                  ELSE Append(before, Incoming)]_vars

\* C20 witness: the sweep has returned a proposal cut to end where the anchor
\* after it starts, its duration recomputed, and then that anchor and a second
\* anchor that overlaps it, both as they came.
C20_Witness ==
    /\ sweep.pc = "returned"
    /\ Len(sweep.tasks) = 3
    /\ ~IsAnchorEntry(sweep.tasks[1])
    /\ IsAnchorEntry(sweep.tasks[2]) /\ IsAnchorEntry(sweep.tasks[3])
    /\ StartOf(sweep.tasks[1]) < StartOf(sweep.tasks[2])
    /\ StartOf(sweep.tasks[2]) < EndOf(sweep.tasks[1])
    /\ StartOf(sweep.tasks[3]) < EndOf(sweep.tasks[2])
    /\ Len(sweep.result) = 3
    /\ EndOf(sweep.result[1]) = StartOf(sweep.tasks[2])
    /\ sweep.result[1].estimated_minutes = StartOf(sweep.tasks[2]) - StartOf(sweep.tasks[1])
    /\ sweep.result[2] = sweep.tasks[2]
    /\ sweep.result[3] = sweep.tasks[3]

\* the anchors of a list are pairwise non-overlapping
AnchorsApart(tasks) ==
    \A k, l \in 1..Len(tasks) :
        (k < l /\ IsAnchorEntry(tasks[k]) /\ IsAnchorEntry(tasks[l]))
            => ~_overlaps(StartOf(tasks[k]), EndOf(tasks[k]),
                          StartOf(tasks[l]), EndOf(tasks[l]))
\* starts non-decreasing and no two entries overlapping, adjacent or not
SortedNoOverlap(tasks) ==
    \A k, l \in 1..Len(tasks) :
        k < l => /\ StartOf(tasks[k]) <= StartOf(tasks[l])
                 /\ ~_overlaps(StartOf(tasks[k]), EndOf(tasks[k]),
                               StartOf(tasks[l]), EndOf(tasks[l]))

\* C21: _resolve_residual_overlaps applied to a list sorted by start whose
\* anchors are pairwise non-overlapping returns a list with non-decreasing
\* starts in which no two entries overlap.
C21_SweepLeavesNoOverlap ==
    (sweep.pc = "returned" /\ AnchorsApart(sweep.tasks))
        => SortedNoOverlap(sweep.result)

\* the minutes the entries of a list cover
MinutesOf(tasks) ==
    UNION { StartOf(tasks[k])..(EndOf(tasks[k]) - 1) : k \in 1..Len(tasks) }
\* the proposals that reach the Task Fitter
FittableTasks == SelectSeq(llm_tasks, Fittable)

\* C22: the minutes covered by the non-anchor entries of the result are the
\* minutes covered by some parsable proposal not named [CLASS]..., less the
\* minutes covered by the anchors.
C22_NoFreeMinuteLost ==
    pc = "done" =>
        MinutesOf(ProposalEntries(merged))
            = MinutesOf(FittableTasks) \ MinutesOf(class_tasks)

\* C22 witness: a result in which an anchor took minutes of a proposal and
\* the resolver pushed the start of a piece that ran into the piece before it.
C22_Witness ==
    /\ pc = "done"
    /\ MinutesOf(FittableTasks) \cap MinutesOf(class_tasks) # {}
    /\ \E k \in 1..Len(merged) :
           /\ ~IsAnchorEntry(merged[k])
           /\ \A l \in 1..Len(fitted_personal) :
                  StartOf(fitted_personal[l]) # StartOf(merged[k])
    /\ Len(ProposalEntries(merged)) = 2

\* piece j of fitted_personal sorts before piece i: earlier start, or equal
\* start and earlier place in the list
SortsBefore(j, i) ==
    \/ StartOf(fitted_personal[j]) < StartOf(fitted_personal[i])
    \/ /\ StartOf(fitted_personal[j]) = StartOf(fitted_personal[i])
       /\ j < i
\* how far the pieces that sort before piece i reach, at least to its start
ReachBefore(i) ==
    LET ends == { StartOf(fitted_personal[i]) } \cup
                { EndOf(fitted_personal[j]) :
                      j \in { l \in 1..Len(fitted_personal) : SortsBefore(l, i) } }
    IN  CHOOSE m \in ends : \A x \in ends : x <= m
\* piece i is left something by the pieces that sort before it
Survives(i) == ReachBefore(i) < EndOf(fitted_personal[i])
\* piece i as the pieces that sort before it leave it
AfterEarlier(i) ==
    LET f == fitted_personal[i]
    IN  IF ReachBefore(i) = StartOf(f) THEN f
        ELSE ScheduledTask(_make_slot(ReachBefore(i), EndOf(f)), f.task_name,
                           f.is_attendance_safe, EndOf(f) - ReachBefore(i))

\* C23: what becomes of a fitted piece depends on the pieces that sort before
\* it only (earlier start, or equal start and earlier place in the proposal
\* list): it is in the result as the Task Fitter made it unless such a piece
\* reaches past its start, then with its start pushed to where they reach,
\* and not at all when they reach its end; a piece that sorts after it takes
\* nothing from it.
C23_EarlierPieceWins ==
    pc = "done" =>
        /\ \A i \in 1..Len(fitted_personal) :
               Survives(i) => \E k \in 1..Len(merged) : merged[k] = AfterEarlier(i)
        /\ Len(ProposalEntries(merged))
               = Cardinality({ i \in 1..Len(fitted_personal) : Survives(i) })

\* C23 witness: two pieces with the same start; the one of the proposal
\* listed first is in the result as fitted, the other starts where it ends.
C23_Witness ==
    /\ pc = "done"
    /\ Len(fitted_personal) = 2
    /\ StartOf(fitted_personal[1]) = StartOf(fitted_personal[2])
    /\ EndOf(fitted_personal[1]) < EndOf(fitted_personal[2])
    /\ \E k \in 1..(Len(merged) - 1) :
           /\ merged[k] = fitted_personal[1]
           /\ merged[k + 1].task_name = fitted_personal[2].task_name
           /\ StartOf(merged[k + 1]) = EndOf(fitted_personal[1])
           /\ EndOf(merged[k + 1]) = EndOf(fitted_personal[2])

\* the minutes of the day, 0..1439, an entry covers on the clock
ClockMinutesOf(t) == { m % (24 * 60) : m \in StartOf(t)..(EndOf(t) - 1) }

\* C24: no non-anchor entry of the result overlaps an anchor of the result
\* when both intervals are taken as clock time of the day, also when one of
\* them crosses midnight.
C24_NoAnchorViolatedOnTheClock ==
    pc = "done" =>
        \A k, l \in 1..Len(merged) :
            (IsAnchorEntry(merged[k]) /\ ~IsAnchorEntry(merged[l]))
                => ClockMinutesOf(merged[k]) \cap ClockMinutesOf(merged[l]) = {}

\* C25: an interval 0 <= s < e written by _make_slot and read by _parse_slot
\* comes back as (s, e), also for values at or above 1440: no wrap is added
\* a second time.
C25_SlotRoundTrip ==
    slot.pc = "parsed" => slot.parsed = <<slot.s, slot.e>>

\* C25 witness: an interval that ends after 24:00, and whose end reads
\* earlier on the clock than its start, has been written and read back.
C25_Witness ==
    /\ slot.pc = "parsed"
    /\ slot.s < 1440 /\ slot.e > 1440
    /\ slot.e % 1440 < slot.s
    /\ slot.text[2].h >= 24

\* the last reflection was refused with 404 or 400
Refused == history.last.status \in {404, 400}

\* C26: whenever trigger_reflection is asked for a date for which a plan has
\* been saved and a completion has been logged, in whatever order, it is not
\* refused with 404 or 400 and evaluates a plan of that date with a
\* completion of that date; a refusal leaves the policy store unchanged.
C26_ReflectionFindsPlanAndCompletion ==
    history.last.status # 0 =>
        /\ (/\ history.last.date \in history.last.plans_saved
            /\ history.last.date \in history.last.completions_logged)
               => /\ ~Refused
                  /\ history.last.plan.date = history.last.date
                  /\ history.last.completion.date = history.last.date
        /\ Refused => history.reflection_count = history.last.policy_before

====
